---- MODULE Spec2Model ----
(***************************************************************************)
(* Unit of work (Transaction), identity map, record handles (Tx) and the   *)
(* storage transaction of the ORM, as one state machine.                   *)
(*                                                                         *)
(* One behaviour is the life of one Transaction: create / get hand out     *)
(* handles, handles are borrowed, written through and deleted, and the     *)
(* Transaction ends with commit or rollback.  The SQL engine behind the    *)
(* StorageTransaction trait is modelled by the tables and rows it holds;   *)
(* every statement sent to it may fail with an engine error.               *)
(***************************************************************************)
EXTENDS Integers, Sequences, FiniteSets, TLC

(* ------------------------------ bounds -------------------------------- *)

\* largest row id the engine hands out (AUTOINCREMENT counter cap)
MaxId == 2
\* most entries the identity map tracks in one unit of work
MaxEntries == 2
\* most borrow guards (Ref and RefMut) alive at once
MaxGuards == 2

(* ------------------------- record types, schemas ---------------------- *)

\* Two record types produced by the derive: Named has one String field
\* "name", Unit has no field at all.
Types == {"Named", "Unit"}
Tables == {"t", "u"}
\* values a String field takes in the model
Values == {"a", "b"}
\* the name a record is created with
NewValues == {"a"}

\* record types the (de)serializer is exercised on beside Types:
\* Pair { #[column_name("is_on")] on: bool, count: i64 },
\* Triple { first: String, last: String, done: bool },
\* Sample { blob: Vec<u8>, ratio: f64, title: String, size: i64 }
RecordTypes == Types \cup {"Pair", "Triple", "Sample"}

Field(ident, column, ty) == [ident |-> ident, column |-> column, ty |-> ty]

\* the named fields of the struct the derive is applied to, in declaration
\* order: identifier, column name (the column_name attribute, or the
\* identifier), Rust type
Fields(T) ==
    CASE T = "Named" -> << Field("name", "name", "String") >>
      [] T = "Unit" -> << >>
      [] T = "Pair" -> << Field("on", "is_on", "bool"), Field("count", "count", "i64") >>
      [] T = "Triple" -> << Field("first", "first", "String"),
                            Field("last", "last", "String"),
                            Field("done", "done", "bool") >>
      [] T = "Sample" -> << Field("blob", "blob", "Vec<u8>"),
                            Field("ratio", "ratio", "f64"),
                            Field("title", "title", "String"),
                            Field("size", "size", "i64") >>

\* impl_object_type!: ObjectType::TYPE of a Rust type
ObjectType(ty) ==
    CASE ty = "String" -> "String"
      [] ty = "Vec<u8>" -> "Bytes"
      [] ty = "i64" -> "Int64"
      [] ty = "f64" -> "Float64"
      [] ty = "bool" -> "Bool"

\* the derive's schema_fields: one Column per field, in declaration order
schema_fields(fields) ==
    [i \in 1..Len(fields) |->
        [column_name |-> fields[i].column, attr_name |-> fields[i].ident,
         typ |-> ObjectType(fields[i].ty)]]

\* Schema.columns of a type: Column {column_name, attr_name, typ}
Columns(T) == schema_fields(Fields(T))

(* ---------------------------- small helpers --------------------------- *)

Put(f, k, v) == [x \in (DOMAIN f) \cup {k} |-> IF x = k THEN v ELSE f[x]]
Drop(f, k) == [x \in (DOMAIN f) \ {k} |-> f[x]]
EmptyMap == [x \in {} |-> 0]

RECURSIVE Perms(_)
Perms(S) ==
    IF S = {} THEN { << >> }
    ELSE UNION { { <<x>> \o p : p \in Perms(S \ {x}) } : x \in S }

(* ----------------------------- data.rs -------------------------------- *)

\* Value<'a>: a scalar tagged by its variant
Value(tag, v) == [tag |-> tag, val |-> v]

\* impl ToSql for Value: the engine-side value a bound Value becomes
to_sql(value) ==
    [st |-> CASE value.tag = "String" -> "text"
              [] value.tag = "Bytes" -> "blob"
              [] value.tag = "Float64" -> "real"
              [] OTHER -> "integer",
     val |-> value.val]

SqlNull == [st |-> "null", val |-> ""]

\* row.get(i)? in select_row: the engine value read back as the Rust type
\* the column's DataType asks for; InvalidColumnType when it does not fit
FromSqlOk(typ, sqlv) ==
    CASE typ = "String" -> sqlv.st = "text"
      [] typ = "Bytes" -> sqlv.st = "blob"
      [] typ = "Float64" -> sqlv.st \in {"real", "integer"}
      [] OTHER -> sqlv.st = "integer"

\* mutant: impl_value_from!(i64, Float64), an i64 travels as a Float64
Variant_i64_as_f64(ty) ==
    CASE ty = "String" -> "String"
      [] ty = "Vec<u8>" -> "Bytes"
      [] ty = "i64" -> "Float64"
      [] ty = "f64" -> "Float64"
      [] ty = "bool" -> "Bool"

\* impl_cow_value_from! / impl_value_from!: the Value variant a Rust type
\* converts to and from
Variant(ty) ==
    CASE ty = "String" -> "String"
      [] ty = "Vec<u8>" -> "Bytes"
      [] ty = "i64" -> "Int64"
      [] ty = "f64" -> "Float64"
      [] ty = "bool" -> "Bool"

\* impl From<&T> for Value
value_from(ty, x) == Value(Variant(ty), x)

\* what a field holds after a conversion that panicked
Unwound == "<panic>"

\* impl From<Value> for T: the payload of the variant of T, a panic for
\* any other variant
from_value(ty, value) == IF value.tag = Variant(ty) THEN value.val ELSE Unwound

\* the derive's serialize: vec![(&self.f).into(), ..], one Value per
\* field in declaration order; content holds the fields' values in
\* declaration order
serialize(T, content) ==
    [i \in 1..Len(Fields(T)) |-> value_from(Fields(T)[i].ty, content[i])]

\* the derive's deserialize: f: iter.next().unwrap().into() per field in
\* declaration order
deserialize(T, row) ==
    [i \in 1..Len(Fields(T)) |->
        IF i <= Len(row) THEN from_value(Fields(T)[i].ty, row[i]) ELSE Unwound]

(* ----------------------------- error.rs ------------------------------- *)

Ok == [kind |-> "Ok", id |-> 0, name |-> ""]
Panic == [kind |-> "panic", id |-> 0, name |-> ""]
NotFound(id, type_name) == [kind |-> "NotFound", id |-> id, name |-> type_name]
LockConflict == [kind |-> "LockConflict", id |-> 0, name |-> ""]
Storage == [kind |-> "Storage", id |-> 0, name |-> ""]
MissingColumn(col) == [kind |-> "MissingColumn", id |-> 0, name |-> col]
UnexpectedType(col) == [kind |-> "UnexpectedType", id |-> 0, name |-> col]

\* rusqlite::Error values the engine may answer a statement with:
\* class SqliteFailure carries an ErrorCode and a message, class Other is
\* any other rusqlite::Error variant.  col is the column named by a
\* "no such column: <col>" / "has no column named <col>" message, "" when
\* the message is not of that shape.
EngineErr(class, code, col) == [class |-> class, code |-> code, col |-> col]
NoFault == EngineErr("none", "", "")
Busy == EngineErr("SqliteFailure", "DatabaseBusy", "")
Locked == EngineErr("SqliteFailure", "DatabaseLocked", "")
OtherErr == EngineErr("Other", "", "")
NoSuchColumn(col) == EngineErr("SqliteFailure", "Unknown", col)

\* a "no such column" failure that names a column of no schema (one a
\* trigger of a table made elsewhere refers to)
Foreign == NoSuchColumn("NEW.rank")

\* engine failures injected from outside (lock contention, I/O, misuse, a
\* table made elsewhere whose columns are not the schema's)
Faults == {Busy, Locked, OtherErr, NoSuchColumn("id"), Foreign}

\* impl From<rusqlite::Error> for Error
ErrorFrom(e) ==
    IF e.class = "SqliteFailure" /\ e.code # "DatabaseBusy" THEN Storage
    ELSE IF e.class = "SqliteFailure" THEN LockConflict
    ELSE Storage

None == [kind |-> "None", id |-> 0, name |-> ""]

\* MissingColumnError::get_error_from_text
get_error_from_text(e, T) ==
    IF e.col = "" THEN None
    ELSE IF \E i \in 1..Len(Columns(T)) : Columns(T)[i].column_name = e.col
         THEN MissingColumn(e.col)
    ELSE IF e.col = "id" THEN MissingColumn("id")
    ELSE None

(* ------------------------------ state --------------------------------- *)

VARIABLES
    cell_map,   \* Transaction.cell_map: key -> Rc<DataCell> (index into cells)
    state_map,  \* Transaction.state_map: key -> Rc<Cell<ObjectState>> (index into states)
    cells,      \* heap of DataCell: id, content, and the RefCell's outstanding guards
    states,     \* heap of Cell<ObjectState>
    handles,    \* every Tx handed out: key, cell, state
    db,         \* Transaction.inner: the engine's view inside the open transaction
    disk,       \* what the engine has durably committed
    tableOf,    \* Schema.table_name of each type
    mode,       \* "open", or how the unit of work ended
    last        \* the last operation: its arguments, result and storage calls

vars == <<cell_map, state_map, cells, states, handles, db, disk, tableOf, mode, last>>

Key(T, id) == [typ |-> T, id |-> id]

(* ---------------------------- storage.rs ------------------------------ *)

NoTable == [exists |-> FALSE, cols |-> {}, rows |-> EmptyMap, seq |-> 0]

ColumnNames(T) == { Columns(T)[i].column_name : i \in 1..Len(Columns(T)) }

Call(op, T, id) == [op |-> op, typ |-> T, id |-> id]

\* the n-th storage call of an operation fails with fp.err when fp.at = n
FaultAt(fp, n) == IF fp.at = n THEN fp.err ELSE NoFault
NoFaults == [at |-> 0, err |-> NoFault]
FaultPlans(n) == {NoFaults} \cup { [at |-> i, err |-> e] : i \in 1..n, e \in Faults }

Ret(res, d, val) == [res |-> res, db |-> d, val |-> val]

\* StorageTransaction::table_exists
table_exists(d, T, fault) ==
    IF fault # NoFault THEN Ret(ErrorFrom(fault), d, FALSE)
    ELSE Ret(Ok, d, d[tableOf[T]].exists)

\* StorageTransaction::create_table
create_table(d, T, fault) ==
    IF fault # NoFault THEN Ret(ErrorFrom(fault), d, 0)
    ELSE IF d[tableOf[T]].exists
         THEN Ret(ErrorFrom(EngineErr("SqliteFailure", "Unknown", "")), d, 0)
    ELSE Ret(Ok,
             [d EXCEPT ![tableOf[T]] =
                 [exists |-> TRUE, cols |-> ColumnNames(T), rows |-> EmptyMap, seq |-> 0]],
             0)

\* the engine row an INSERT of `row` under T's schema makes
InsertedRow(tb, T, row) ==
    [c \in tb.cols |->
        IF \E i \in 1..Len(row) : Columns(T)[i].column_name = c
        THEN to_sql(row[CHOOSE i \in 1..Len(row) : Columns(T)[i].column_name = c])
        ELSE SqlNull]

\* mutant: the engine hands out the id of the newest row again
last_insert_rowid_stale(tb) == IF tb.seq = 0 THEN 1 ELSE tb.seq

\* the id the engine assigns (INTEGER PRIMARY KEY AUTOINCREMENT)
last_insert_rowid(tb) == tb.seq + 1

\* the rusqlite::Error self.execute(insert text) ends with, NoFault when it succeeds
InsertEngineErr(d, T, row, fault) ==
    IF fault # NoFault THEN fault
    ELSE IF ~d[tableOf[T]].exists THEN EngineErr("SqliteFailure", "Unknown", "")
    ELSE IF \E i \in 1..Len(row) : Columns(T)[i].column_name \notin d[tableOf[T]].cols
         THEN NoSuchColumn(Columns(T)[CHOOSE i \in 1..Len(row) :
                              Columns(T)[i].column_name \notin d[tableOf[T]].cols].column_name)
    ELSE NoFault

\* mutant: the insert is put off, the engine only promises the id
insert_row_deferred(d, T, row, fault) ==
    Ret(Ok, d, last_insert_rowid(d[tableOf[T]]))

\* StorageTransaction::insert_row
insert_row(d, T, row, fault) ==
    LET e == InsertEngineErr(d, T, row, fault)
        tb == d[tableOf[T]]
        id == last_insert_rowid(tb)
    IN  IF e # NoFault
        THEN Ret(IF get_error_from_text(e, T) # None
                 THEN get_error_from_text(e, T) ELSE ErrorFrom(e), d, 0)
        ELSE Ret(Ok,
                 [d EXCEPT ![tableOf[T]] =
                     [tb EXCEPT !.rows = Put(tb.rows, id, InsertedRow(tb, T, row)),
                                !.seq = id]],
                 id)

\* mutant: update_row sends its statement for a schema without columns too
update_row_always(d, id, T, row, fault) ==
    LET tb == d[tableOf[T]] IN
    IF fault # NoFault THEN Ret(ErrorFrom(fault), d, 0)
    ELSE IF ~tb.exists \/ Columns(T) = << >>
         THEN Ret(ErrorFrom(EngineErr("SqliteFailure", "Unknown", "")), d, 0)
    ELSE IF ~(ColumnNames(T) \subseteq tb.cols)
         THEN Ret(ErrorFrom(NoSuchColumn("name")), d, 0)
    ELSE IF id \notin DOMAIN tb.rows THEN Ret(Ok, d, 0)
    ELSE Ret(Ok,
             [d EXCEPT ![tableOf[T]] =
                 [tb EXCEPT !.rows = Put(tb.rows, id,
                     [c \in tb.cols |->
                         IF c \in ColumnNames(T)
                         THEN InsertedRow(tb, T, row)[c] ELSE tb.rows[id][c]])]],
             0)

\* StorageTransaction::update_row
update_row(d, id, T, row, fault) ==
    LET tb == d[tableOf[T]] IN
    IF Columns(T) = << >> THEN Ret(Ok, d, 0)
    ELSE IF fault # NoFault THEN Ret(ErrorFrom(fault), d, 0)
    ELSE IF ~tb.exists THEN Ret(ErrorFrom(EngineErr("SqliteFailure", "Unknown", "")), d, 0)
    ELSE IF ~(ColumnNames(T) \subseteq tb.cols)
         THEN Ret(ErrorFrom(NoSuchColumn("name")), d, 0)
    ELSE IF id \notin DOMAIN tb.rows THEN Ret(Ok, d, 0)
    ELSE Ret(Ok,
             [d EXCEPT ![tableOf[T]] =
                 [tb EXCEPT !.rows = Put(tb.rows, id,
                     [c \in tb.cols |->
                         IF c \in ColumnNames(T)
                         THEN InsertedRow(tb, T, row)[c] ELSE tb.rows[id][c]])]],
             0)

\* the rusqlite::Error prepare_cached / query_row of the select text ends
\* with, NoFault when a row came back and every column converted
SelectEngineErr(d, id, T, fault) ==
    LET tb == d[tableOf[T]] IN
    IF fault # NoFault THEN fault
    ELSE IF ~tb.exists THEN EngineErr("SqliteFailure", "Unknown", "")
    ELSE IF \E i \in 1..Len(Columns(T)) : Columns(T)[i].column_name \notin tb.cols
         THEN NoSuchColumn(Columns(T)[CHOOSE i \in 1..Len(Columns(T)) :
                              Columns(T)[i].column_name \notin tb.cols].column_name)
    ELSE IF id \notin DOMAIN tb.rows THEN EngineErr("QueryReturnedNoRows", "", "")
    ELSE IF \E i \in 1..Len(Columns(T)) :
                ~FromSqlOk(Columns(T)[i].typ, tb.rows[id][Columns(T)[i].column_name])
         THEN EngineErr("InvalidColumnType", "",
                  Columns(T)[CHOOSE i \in 1..Len(Columns(T)) :
                      ~FromSqlOk(Columns(T)[i].typ,
                                 tb.rows[id][Columns(T)[i].column_name])].column_name)
    ELSE NoFault

\* mutant: a select that finds no row answers with a row of defaults
select_row_lenient(d, id, T, fault) ==
    LET e == SelectEngineErr(d, id, T, fault)
        tb == d[tableOf[T]]
    IN  IF e = NoFault
        THEN Ret(Ok, d, [i \in 1..Len(Columns(T)) |->
                            Value(Columns(T)[i].typ,
                                  tb.rows[id][Columns(T)[i].column_name].val)])
        ELSE IF e.class = "QueryReturnedNoRows"
        THEN Ret(Ok, d, [i \in 1..Len(Columns(T)) |-> Value(Columns(T)[i].typ, "a")])
        ELSE IF e.class = "InvalidColumnType" THEN Ret(UnexpectedType(e.col), d, 0)
        ELSE IF e.class = "SqliteFailure"
             THEN IF get_error_from_text(e, T) = None
                  THEN Ret(Panic, d, 0)
                  ELSE Ret(get_error_from_text(e, T), d, 0)
        ELSE Ret(NotFound(id, T), d, 0)

\* StorageTransaction::select_row
select_row(d, id, T, fault) ==
    LET e == SelectEngineErr(d, id, T, fault)
        tb == d[tableOf[T]]
    IN  IF e = NoFault
        THEN Ret(Ok, d, [i \in 1..Len(Columns(T)) |->
                            Value(Columns(T)[i].typ,
                                  tb.rows[id][Columns(T)[i].column_name].val)])
        ELSE IF e.class = "InvalidColumnType" THEN Ret(UnexpectedType(e.col), d, 0)
        ELSE IF e.class = "SqliteFailure"
             THEN IF get_error_from_text(e, T) = None
                  THEN Ret(Panic, d, 0)
                  ELSE Ret(get_error_from_text(e, T), d, 0)
        ELSE Ret(NotFound(id, T), d, 0)

\* StorageTransaction::delete_row
delete_row(d, id, T, fault) ==
    LET tb == d[tableOf[T]] IN
    IF fault # NoFault THEN Ret(ErrorFrom(fault), d, 0)
    ELSE IF ~tb.exists THEN Ret(ErrorFrom(EngineErr("SqliteFailure", "Unknown", "")), d, 0)
    ELSE IF id \notin DOMAIN tb.rows THEN Ret(NotFound(id, T), d, 0)
    ELSE Ret(Ok, [d EXCEPT ![tableOf[T]] = [tb EXCEPT !.rows = Drop(tb.rows, id)]], 0)

\* StorageTransaction::commit
storage_commit(d, fault) ==
    IF fault # NoFault THEN Ret(ErrorFrom(fault), d, 0) ELSE Ret(Ok, d, 0)

\* StorageTransaction::rollback: the engine goes back to what is committed
storage_rollback(d, fault) ==
    IF fault # NoFault THEN Ret(ErrorFrom(fault), d, 0) ELSE Ret(Ok, disk, 0)

(* --------------------------- transaction.rs --------------------------- *)

\* ObjectState
ObjectState == {"Clean", "Modified", "Removed"}

NoHandle == [typ |-> "", id |-> 0, cell |-> 0, state |-> 0]
\* Tx::new
Tx(T, id, cell, state) == [typ |-> T, id |-> id, cell |-> cell, state |-> state]

\* DataCell { id, content: RefCell<Box<dyn Record>> }; r and w count the
\* Ref and RefMut guards of the RefCell that are alive
DataCell(T, id, content) == [typ |-> T, id |-> id, content |-> content, r |-> 0, w |-> 0]

Done(op, T, id, res, calls, tx) ==
    [op |-> op, typ |-> T, id |-> id, res |-> res, calls |-> calls, tx |-> tx]

\* no call is in progress: the caller has taken the result of the last one
Idle == Done("none", "", 0, Ok, << >>, NoHandle)

\* mutant: create_table is issued whatever table_exists reported
ensure_table_always(d, T, fp) ==
    LET te == table_exists(d, T, FaultAt(fp, 1))
        c1 == << Call("table_exists", T, 0) >>
        ct == create_table(d, T, FaultAt(fp, 2))
    IN  IF te.res # Ok THEN [res |-> te.res, db |-> d, calls |-> c1]
        ELSE [res |-> ct.res, db |-> ct.db,
              calls |-> Append(c1, Call("create_table", T, 0))]

\* Transaction::ensure_table; the result carries the storage calls made
ensure_table(d, T, fp) ==
    LET te == table_exists(d, T, FaultAt(fp, 1))
        c1 == << Call("table_exists", T, 0) >>
    IN  IF te.res # Ok THEN [res |-> te.res, db |-> d, calls |-> c1]
        ELSE IF te.val THEN [res |-> Ok, db |-> d, calls |-> c1]
        ELSE LET ct == create_table(d, T, FaultAt(fp, 2))
             IN  [res |-> ct.res, db |-> ct.db,
                  calls |-> Append(c1, Call("create_table", T, 0))]

\* no Ref or RefMut guard is alive: commit(self) and rollback(self) move the
\* Transaction, which the borrow checker allows only once every Tx<'_, T>
\* and every guard borrowed from one is gone
NoGuards == \A c \in 1..Len(cells) : cells[c].r = 0 /\ cells[c].w = 0

\* number of guards alive
RECURSIVE Guards(_)
Guards(n) == IF n = 0 THEN 0 ELSE cells[n].r + cells[n].w + Guards(n - 1)

\* mutant: the mutation state of a new entry is not put into state_map
state_map_insert_skipped(m, map_key, state) == m

\* self.state_map.borrow_mut().insert(map_key, state.clone())
state_map_insert(m, map_key, state) == Put(m, map_key, state)

\* mutant: create goes on to register the record whatever insert_row returned
insert_failed_ignored(ins) == FALSE

\* the `?` on insert_row in create: its error ends create
insert_failed(ins) == ins.res # Ok

\* Transaction::create
create(T, content, fp) ==
    /\ mode = "open" /\ last = Idle
    /\ Cardinality(DOMAIN cell_map) < MaxEntries
    /\ db[tableOf[T]].seq < MaxId
    /\ LET et == ensure_table(db, T, fp)
           ins == insert_row(et.db, T, serialize(T, content),
                             FaultAt(fp, Len(et.calls) + 1))
           calls == Append(et.calls, Call("insert_row", T, 0))
           map_key == Key(T, ins.val)
           cell == Len(cells) + 1
           state == Len(states) + 1
       IN  IF et.res # Ok
           THEN /\ db' = et.db
                /\ last' = Done("create", T, 0, et.res, et.calls, NoHandle)
                /\ UNCHANGED <<cell_map, state_map, cells, states, handles>>
           ELSE IF insert_failed(ins)
           THEN /\ db' = ins.db
                /\ last' = Done("create", T, 0, ins.res, calls, NoHandle)
                /\ UNCHANGED <<cell_map, state_map, cells, states, handles>>
           ELSE /\ db' = ins.db
                /\ cells' = Append(cells, DataCell(T, ins.val, content))
                /\ cell_map' = Put(cell_map, map_key, cell)
                /\ states' = Append(states, "Clean")
                /\ state_map' = state_map_insert(state_map, map_key, state)
                /\ handles' = handles \cup {Tx(T, ins.val, cell, state)}
                /\ last' = Done("create", T, ins.val, Ok, calls,
                                Tx(T, ins.val, cell, state))
    /\ UNCHANGED <<disk, tableOf, mode>>

\* mutant: get consults the identity map for Removed entries only and
\* reads every other record from storage again
Lookup_refetch(map_key) ==
    IF map_key \in DOMAIN state_map /\ states[state_map[map_key]] = "Removed"
    THEN "removed" ELSE "miss"

\* the identity-map lookup of get: the entry is Removed, is there ("hit"),
\* or get goes on to storage ("miss")
Lookup(map_key) ==
    IF map_key \in DOMAIN state_map
    THEN IF states[state_map[map_key]] = "Removed" THEN "removed"
         ELSE IF map_key \in DOMAIN cell_map THEN "hit" ELSE "miss"
    ELSE "miss"

\* Transaction::get
get(T, id, fp) ==
    /\ mode = "open" /\ last = Idle
    /\ LET et == ensure_table(db, T, fp)
           map_key == Key(T, id)
           sel == select_row(et.db, id, T, FaultAt(fp, Len(et.calls) + 1))
           calls == Append(et.calls, Call("select_row", T, id))
           cell == Len(cells) + 1
           state == Len(states) + 1
       IN  IF et.res # Ok
           THEN /\ db' = et.db
                /\ last' = Done("get", T, id, et.res, et.calls, NoHandle)
                /\ UNCHANGED <<cell_map, state_map, cells, states, handles, mode>>
           ELSE IF Lookup(map_key) = "removed"
           THEN /\ db' = et.db
                /\ last' = Done("get", T, id, NotFound(id, T), et.calls, NoHandle)
                /\ UNCHANGED <<cell_map, state_map, cells, states, handles, mode>>
           ELSE IF Lookup(map_key) = "hit"
           THEN /\ db' = et.db
                /\ handles' = handles \cup
                       {Tx(T, id, cell_map[map_key], state_map[map_key])}
                /\ last' = Done("get", T, id, Ok, et.calls,
                                Tx(T, id, cell_map[map_key], state_map[map_key]))
                /\ UNCHANGED <<cell_map, state_map, cells, states, mode>>
           ELSE IF sel.res # Ok
           THEN /\ db' = sel.db
                /\ last' = Done("get", T, id, sel.res, calls, NoHandle)
                /\ mode' = IF sel.res = Panic THEN "aborted" ELSE mode
                /\ UNCHANGED <<cell_map, state_map, cells, states, handles>>
           ELSE /\ Cardinality(DOMAIN cell_map) < MaxEntries
                /\ db' = sel.db
                /\ cells' = Append(cells, DataCell(T, id, deserialize(T, sel.val)))
                /\ cell_map' = Put(cell_map, map_key, cell)
                /\ states' = Append(states, "Clean")
                /\ state_map' = state_map_insert(state_map, map_key, state)
                /\ handles' = handles \cup {Tx(T, id, cell, state)}
                /\ last' = Done("get", T, id, Ok, calls, Tx(T, id, cell, state))
                /\ UNCHANGED mode
    /\ UNCHANGED <<disk, tableOf>>

\* mutant: the RefCell lets a shared borrow in beside a RefMut
BorrowFails_never(c) == FALSE

\* RefCell::borrow panics: a RefMut of the instance is alive
BorrowFails(c) == cells[c].w > 0

\* RefCell::borrow_mut panics, try_borrow_mut fails: any guard is alive
BorrowMutFails(c) == cells[c].r > 0 \/ cells[c].w > 0

\* mutant: borrow does not look at the mutation state
borrow_removed_skipped(h) == FALSE

\* the Removed test of borrow
borrow_removed(h) == states[h.state] = "Removed"

\* mutant: borrow_mut does not look at the mutation state
borrow_mut_removed_skipped(h) == FALSE

\* the Removed test of borrow_mut
borrow_mut_removed(h) == states[h.state] = "Removed"

\* mutant: delete does not try the borrow
delete_borrowed_skipped(h) == FALSE

\* the try_borrow_mut test of delete
delete_borrowed(h) == BorrowMutFails(h.cell)

\* Tx::borrow
borrow(h) ==
    /\ mode = "open" /\ last = Idle
    /\ h \in handles
    /\ IF borrow_removed(h) \/ BorrowFails(h.cell)
       THEN /\ mode' = "aborted"
            /\ last' = Done("borrow", h.typ, h.id, Panic, << >>, h)
            /\ UNCHANGED cells
       ELSE /\ Guards(Len(cells)) < MaxGuards
            /\ cells' = [cells EXCEPT ![h.cell].r = @ + 1]
            /\ UNCHANGED <<mode, last>>
    /\ UNCHANGED <<cell_map, state_map, states, handles, db, disk, tableOf>>

\* mutant: borrow_mut leaves the mutation state to the writes
borrow_mut_state_kept(h) == states[h.state]

\* the mutation state borrow_mut sets before it borrows
borrow_mut_state(h) == "Modified"

\* Tx::borrow_mut
borrow_mut(h) ==
    /\ mode = "open" /\ last = Idle
    /\ h \in handles
    /\ IF borrow_mut_removed(h)
       THEN /\ mode' = "aborted"
            /\ last' = Done("borrow_mut", h.typ, h.id, Panic, << >>, h)
            /\ UNCHANGED <<cells, states>>
       ELSE /\ states' = [states EXCEPT ![h.state] = borrow_mut_state(h)]
            /\ IF BorrowMutFails(h.cell)
               THEN /\ mode' = "aborted"
                    /\ last' = Done("borrow_mut", h.typ, h.id, Panic, << >>, h)
                    /\ UNCHANGED cells
               ELSE /\ Guards(Len(cells)) < MaxGuards
                    /\ cells' = [cells EXCEPT ![h.cell].w = @ + 1]
                    /\ UNCHANGED <<mode, last>>
    /\ UNCHANGED <<cell_map, state_map, handles, db, disk, tableOf>>

\* a write through the RefMut that borrow_mut returned
write(h, v) ==
    /\ mode = "open" /\ last = Idle
    /\ h \in handles
    /\ cells[h.cell].w > 0
    /\ Columns(h.typ) # << >>
    /\ cells[h.cell].content # << v >>
    /\ cells' = [cells EXCEPT ![h.cell].content = << v >>]
    /\ UNCHANGED <<cell_map, state_map, states, handles, db, disk, tableOf, mode, last>>

\* the Ref that borrow returned is dropped
drop_ref(h) ==
    /\ mode = "open" /\ last = Idle
    /\ h \in handles
    /\ cells[h.cell].r > 0
    /\ cells' = [cells EXCEPT ![h.cell].r = @ - 1]
    /\ UNCHANGED <<cell_map, state_map, states, handles, db, disk, tableOf, mode, last>>

\* the RefMut that borrow_mut returned is dropped
drop_mut(h) ==
    /\ mode = "open" /\ last = Idle
    /\ h \in handles
    /\ cells[h.cell].w > 0
    /\ cells' = [cells EXCEPT ![h.cell].w = @ - 1]
    /\ UNCHANGED <<cell_map, state_map, states, handles, db, disk, tableOf, mode, last>>

\* Tx::delete
delete(h) ==
    /\ mode = "open" /\ last = Idle
    /\ h \in handles
    /\ IF delete_borrowed(h)
       THEN /\ mode' = "aborted"
            /\ last' = Done("delete", h.typ, h.id, Panic, << >>, h)
            /\ UNCHANGED states
       ELSE /\ states' = [states EXCEPT ![h.state] = "Removed"]
            /\ UNCHANGED <<mode, last>>
    /\ UNCHANGED <<cell_map, state_map, cells, handles, db, disk, tableOf>>

\* mutant: the loop writes back every entry that is not Removed, Clean or not
apply_entry_all(key, d, fault) ==
    LET value == cells[cell_map[key]]
        object == value.content
    IN  IF states[state_map[key]] = "Removed"
        THEN [r |-> delete_row(d, value.id, value.typ, fault),
              calls |-> << Call("delete_row", value.typ, value.id) >>]
        ELSE [r |-> update_row(d, value.id, value.typ,
                               serialize(value.typ, object), fault),
              calls |-> << Call("update_row", value.typ, value.id) >>]

\* the body of try_apply's loop for one entry: the storage call its state
\* asks for, if any
apply_entry(key, d, fault) ==
    LET value == cells[cell_map[key]]
        object == value.content
    IN  IF states[state_map[key]] = "Removed"
        THEN [r |-> delete_row(d, value.id, value.typ, fault),
              calls |-> << Call("delete_row", value.typ, value.id) >>]
        ELSE IF states[state_map[key]] = "Modified"
        THEN [r |-> update_row(d, value.id, value.typ,
                               serialize(value.typ, object), fault),
              calls |-> << Call("update_row", value.typ, value.id) >>]
        ELSE [r |-> Ret(Ok, d, 0), calls |-> << >>]

\* Transaction::try_apply over the entries in iteration order `order`;
\* log holds the storage calls made so far
RECURSIVE try_apply(_, _, _, _)
try_apply(order, d, log, fp) ==
    IF order = << >> THEN [res |-> Ok, db |-> d, calls |-> log]
    ELSE IF Head(order) \notin DOMAIN state_map
    THEN [res |-> Panic, db |-> d, calls |-> log]
    ELSE LET e == apply_entry(Head(order), d, FaultAt(fp, Len(log) + 1))
         IN  IF e.r.res # Ok
             THEN [res |-> e.r.res, db |-> e.r.db, calls |-> log \o e.calls]
             ELSE try_apply(Tail(order), e.r.db, log \o e.calls, fp)

\* mutant: the result of try_apply is dropped, the storage commit follows
\* a failed flush too
flush_and_commit_anyway(order, d, fp) ==
    LET ta == try_apply(order, d, << >>, fp)
        co == storage_commit(ta.db, FaultAt(fp, Len(ta.calls) + 1))
    IN  [res |-> IF ta.res # Ok THEN ta.res ELSE co.res, db |-> co.db,
         calls |-> Append(ta.calls, Call("commit", "", 0))]

\* Transaction::commit without the bookkeeping of the model: flush, then
\* commit the storage transaction
flush_and_commit(order, d, fp) ==
    LET ta == try_apply(order, d, << >>, fp)
        co == storage_commit(ta.db, FaultAt(fp, Len(ta.calls) + 1))
    IN  IF ta.res # Ok THEN ta
        ELSE [res |-> co.res, db |-> co.db,
              calls |-> Append(ta.calls, Call("commit", "", 0))]

\* Transaction::commit
commit(order, fp) ==
    /\ mode = "open" /\ last = Idle
    /\ NoGuards
    /\ LET fc == flush_and_commit(order, db, fp)
       IN  /\ db' = fc.db
           /\ disk' = IF fc.res = Ok THEN fc.db ELSE disk
           /\ mode' = IF fc.res = Ok THEN "committed"
                      ELSE IF fc.res = Panic THEN "aborted" ELSE "commit_failed"
           /\ last' = Done("commit", "", 0, fc.res, fc.calls, NoHandle)
    /\ UNCHANGED <<cell_map, state_map, cells, states, handles, tableOf>>

\* mutant: rollback writes the pending changes back before it rolls back
do_rollback_flushing(d, fp) ==
    LET ta == try_apply(CHOOSE o \in Perms(DOMAIN cell_map) : TRUE, d, << >>, NoFaults)
        rb == storage_rollback(ta.db, FaultAt(fp, Len(ta.calls) + 1))
    IN  [res |-> rb.res, db |-> rb.db,
         calls |-> Append(ta.calls, Call("rollback", "", 0))]

\* Transaction::rollback without the bookkeeping of the model
do_rollback(d, fp) ==
    LET rb == storage_rollback(d, FaultAt(fp, 1))
    IN  [res |-> rb.res, db |-> rb.db, calls |-> << Call("rollback", "", 0) >>]

\* Transaction::rollback
rollback(fp) ==
    /\ mode = "open" /\ last = Idle
    /\ NoGuards
    /\ LET rb == do_rollback(db, fp)
       IN  /\ db' = rb.db
           /\ mode' = IF rb.res = Ok THEN "rolled_back" ELSE "rollback_failed"
           /\ last' = Done("rollback", "", 0, rb.res, rb.calls, NoHandle)
    /\ UNCHANGED <<cell_map, state_map, cells, states, handles, disk, tableOf>>

\* the caller takes the result of the call it made; its next call follows
ret ==
    /\ mode = "open" /\ last # Idle
    /\ last' = Idle
    /\ UNCHANGED <<cell_map, state_map, cells, states, handles, db, disk, tableOf, mode>>

(* --------------------------- specification ---------------------------- *)

\* an empty database, and one where table t holds the row (1, "b")
EmptyDb == [tb \in Tables |-> NoTable]
LoadedDb ==
    [tb \in Tables |->
        IF tb = "t"
        THEN [exists |-> TRUE, cols |-> {"name"},
              rows |-> Put(EmptyMap, 1, [c \in {"name"} |-> to_sql(Value("String", "b"))]),
              seq |-> 1]
        ELSE NoTable]

\* what a unit of work is opened on: the database, and the table_name
\* attribute of each type (two types may name one table)
Setups ==
    { [db |-> LoadedDb, tableOf |-> [Named |-> "t", Unit |-> "u"]],
      [db |-> EmptyDb, tableOf |-> [Named |-> "t", Unit |-> "t"]] }

\* storage calls create / get / commit make when none fails
CreateCalls(T) == IF db[tableOf[T]].exists THEN 2 ELSE 3
GetCalls(T, id) ==
    (IF db[tableOf[T]].exists THEN 1 ELSE 2)
    + (IF Key(T, id) \in DOMAIN state_map THEN 0 ELSE 1)
CommitCalls ==
    Cardinality({k \in DOMAIN state_map : states[state_map[k]] # "Clean"}) + 1

\* Transaction::new
Init ==
    /\ cell_map = EmptyMap
    /\ state_map = EmptyMap
    /\ cells = << >>
    /\ states = << >>
    /\ handles = {}
    /\ \E su \in Setups : db = su.db /\ tableOf = su.tableOf
    /\ disk = db
    /\ mode = "open" /\ last = Idle
    /\ last = Idle

Next ==
    \/ \E T \in Types, v \in NewValues : \E fp \in FaultPlans(CreateCalls(T)) :
           create(T, IF Columns(T) = << >> THEN << >> ELSE << v >>, fp)
    \/ \E T \in Types, id \in 1..MaxId : \E fp \in FaultPlans(GetCalls(T, id)) :
           get(T, id, fp)
    \/ \E h \in handles : borrow(h)
    \/ \E h \in handles : borrow_mut(h)
    \/ \E h \in handles, v \in Values : write(h, v)
    \/ \E h \in handles : drop_ref(h)
    \/ \E h \in handles : drop_mut(h)
    \/ \E h \in handles : delete(h)
    \/ \E order \in Perms(DOMAIN cell_map),
          fp \in FaultPlans(CommitCalls) : commit(order, fp)
    \/ \E fp \in FaultPlans(1) : rollback(fp)
    \/ ret

Spec == Init /\ [][Next]_vars

(* ------------------- specification of the (de)serializer -------------- *)

\* values a field of a Rust type takes in the model
ValuesOf(ty) ==
    CASE ty = "String" -> {"a", "b", ""}
      [] ty = "Vec<u8>" -> {"x01", "xff"}
      [] ty = "i64" -> {"0", "-1"}
      [] ty = "f64" -> {"0.5", "-2.0"}
      [] ty = "bool" -> {"true", "false"}

FieldValues == UNION { ValuesOf(ty) : ty \in {"String", "Vec<u8>", "i64", "f64", "bool"} }

\* the values of record type T: one value per field, in declaration order
Contents(T) ==
    { c \in [1..Len(Fields(T)) -> FieldValues] :
        \A i \in 1..Len(Fields(T)) : c[i] \in ValuesOf(Fields(T)[i].ty) }

\* a call of serialize or deserialize and the Row it made or consumed
Coded(op, T, row) == [op |-> op, typ |-> T, row |-> row]

\* a record value of some type, held in the first cell
CodecInit ==
    /\ \E T \in RecordTypes : \E content \in Contents(T) :
          cells = << DataCell(T, 0, content) >>
    /\ cell_map = EmptyMap /\ state_map = EmptyMap
    /\ states = << >> /\ handles = {}
    /\ db = EmptyDb /\ disk = EmptyDb
    /\ tableOf = [Named |-> "t", Unit |-> "u"]
    /\ mode = "open" /\ last = Idle

\* Object::serialize of the value
Object_serialize ==
    /\ Len(cells) = 1 /\ last = Idle
    /\ last' = Coded("serialize", cells[1].typ, serialize(cells[1].typ, cells[1].content))
    /\ UNCHANGED <<cell_map, state_map, cells, states, handles, db, disk, tableOf, mode>>

\* Object::deserialize of the Row serialize made; the value goes to a
\* second cell
Object_deserialize ==
    /\ Len(cells) = 1 /\ last.op = "serialize"
    /\ cells' = Append(cells, DataCell(last.typ, 0, deserialize(last.typ, last.row)))
    /\ last' = Coded("deserialize", last.typ, last.row)
    /\ UNCHANGED <<cell_map, state_map, states, handles, db, disk, tableOf, mode>>

CodecNext == Object_serialize \/ Object_deserialize

CodecSpec == CodecInit /\ [][CodecNext]_vars

(* ------------------------------ claims -------------------------------- *)

KeyOf(h) == Key(h.typ, h.id)
Tracked == DOMAIN cell_map
StateOf(k) == states[state_map[k]]
CellOf(k) == cells[cell_map[k]]
HasCall(calls, op) == \E i \in 1..Len(calls) : calls[i].op = op
\* database d holds the row of entry k; the row
HasRow(d, k) == d[tableOf[k.typ]].exists /\ k.id \in DOMAIN d[tableOf[k.typ]].rows
RowIn(d, k) == d[tableOf[k.typ]].rows[k.id]

\* C1: every handle ever returned for a key references the instance and
\* the mutation-state cell the identity map holds for that key now: the
\* map has one entry per key, and no entry is evicted or replaced by
\* another instance while the unit of work lives.
C1_OneInstancePerKey ==
    \A h \in handles :
        /\ KeyOf(h) \in DOMAIN cell_map /\ KeyOf(h) \in DOMAIN state_map
        /\ cell_map[KeyOf(h)] = h.cell
        /\ state_map[KeyOf(h)] = h.state
        /\ cells[h.cell].id = h.id /\ cells[h.cell].typ = h.typ

\* C1 witness: two entries of one table are tracked, one loaded or created
\* first and one created after it, and a get of a tracked key has just
\* returned the handle the map holds.
C1_Witness ==
    /\ last.op = "get" /\ last.res = Ok
    /\ last.tx \in handles /\ last.tx.cell = cell_map[KeyOf(last.tx)]
    /\ ~HasCall(last.calls, "select_row")
    /\ \E k1, k2 \in Tracked : k1.typ = k2.typ /\ k1.id # k2.id

\* the step is a get(T, id) of a key that is tracked and not Removed
GetOfLive(T, id) ==
    /\ last = Idle /\ last'.op = "get" /\ last'.typ = T /\ last'.id = id
    /\ Key(T, id) \in DOMAIN state_map /\ StateOf(Key(T, id)) # "Removed"

\* C2 as stated: a get of a tracked, not Removed key returns a handle to
\* the existing instance and issues no select_row.
C2_Original ==
    [][\A T \in Types, id \in 1..MaxId :
          GetOfLive(T, id) =>
              /\ last'.res = Ok
              /\ last'.tx = Tx(T, id, cell_map[Key(T, id)], state_map[Key(T, id)])
              /\ ~HasCall(last'.calls, "select_row")]_vars

\* C2 amended: a get of a tracked, not Removed key issues table_exists and
\* nothing else; when table_exists fails the get returns that error, and
\* otherwise it returns a handle to the existing instance and state cell,
\* whose content (unflushed writes included) the get leaves as it is.
C2_GetReturnsTracked ==
    [][\A T \in Types, id \in 1..MaxId :
          GetOfLive(T, id) =>
              /\ last'.calls = << Call("table_exists", T, 0) >>
              /\ \/ last'.res \in {LockConflict, Storage}
                 \/ /\ last'.res = Ok
                    /\ last'.tx = Tx(T, id, cell_map[Key(T, id)], state_map[Key(T, id)])
              /\ cells' = cells /\ states' = states
              /\ cell_map' = cell_map /\ state_map' = state_map]_vars

\* C2 witness: a record was created with name "a", renamed "b" through its
\* handle, and a get of its id has returned the same instance, showing "b",
\* while the row in storage still says "a".
C2_Witness ==
    /\ last.op = "get" /\ last.res = Ok /\ last.calls = << Call("table_exists", "Named", 0) >>
    /\ last.tx.typ = "Named"
    /\ states[last.tx.state] = "Modified"
    /\ cells[last.tx.cell].content = << "b" >>
    /\ HasRow(db, KeyOf(last.tx))
    /\ RowIn(db, KeyOf(last.tx))["name"].val = "a"
    /\ ~HasRow(disk, KeyOf(last.tx))

\* the step is a get(T, id) of a key whose entry is Removed
GetOfRemoved(T, id) ==
    /\ last = Idle /\ last'.op = "get" /\ last'.typ = T /\ last'.id = id
    /\ Key(T, id) \in DOMAIN state_map /\ StateOf(Key(T, id)) = "Removed"

\* handle h is of an entry that a delete has set to Removed
Deleted(h) == states[h.state] = "Removed"

\* the step acquires a guard on the instance of handle h
Acquires(h) ==
    cells'[h.cell].r > cells[h.cell].r \/ cells'[h.cell].w > cells[h.cell].w

\* C3 as stated: once an entry is Removed every borrow and borrow_mut on a
\* handle of it aborts, and every get of its key returns NotFound(id, type
\* name) without a select_row, while the row is still in storage.
C3_Original ==
    [][/\ \A h \in handles :
             Deleted(h) =>
                 /\ (borrow(h) \/ borrow_mut(h)) => last'.res = Panic /\ mode' = "aborted"
                 /\ ~Acquires(h)
                 /\ states'[h.state] = "Removed"
                 /\ HasRow(db, KeyOf(h))
       /\ \A T \in Types, id \in 1..MaxId :
             GetOfRemoved(T, id) =>
                 /\ last'.res = NotFound(id, T)
                 /\ ~HasCall(last'.calls, "select_row")]_vars

\* C3 amended: once an entry is Removed it stays Removed, every borrow and
\* borrow_mut on a handle of it aborts, and a get of its key issues
\* table_exists and nothing else: it returns the error of table_exists when
\* that fails and NotFound(id, type name) otherwise, registering nothing,
\* while the row is still in storage.
C3_RemovedIsGone ==
    [][/\ \A h \in handles :
             Deleted(h) =>
                 /\ (borrow(h) \/ borrow_mut(h)) => last'.res = Panic /\ mode' = "aborted"
                 /\ ~Acquires(h)
                 /\ states'[h.state] = "Removed"
                 /\ HasRow(db, KeyOf(h))
       /\ \A T \in Types, id \in 1..MaxId :
             GetOfRemoved(T, id) =>
                 /\ last'.res \in {NotFound(id, T), LockConflict, Storage}
                 /\ last'.calls = << Call("table_exists", T, 0) >>
                 /\ last'.tx = NoHandle /\ handles' = handles
                 /\ cell_map' = cell_map /\ state_map' = state_map]_vars

\* C3 witness: a get of a deleted key has returned NotFound without a
\* select_row while the row is in storage, and the handle is still around.
C3_Witness ==
    /\ last.op = "get" /\ last.res = NotFound(last.id, last.typ)
    /\ ~HasCall(last.calls, "select_row")
    /\ \E h \in handles :
          /\ KeyOf(h) = Key(last.typ, last.id)
          /\ Deleted(h)
          /\ HasRow(db, KeyOf(h))

\* C6: a RefMut of an instance never coexists with another guard of it: a
\* RefMut is handed out only when the instance has no guard, a Ref only
\* when it has no RefMut, and a borrow_mut (borrow) called while a guard
\* (a RefMut) is alive aborts.
C6_BorrowExclusion ==
    [][/\ \A c \in 1..Len(cells) :
             /\ cells[c].w > 0 => cells[c].w = 1 /\ cells[c].r = 0
             /\ cells'[c].w > 0 => cells'[c].w = 1 /\ cells'[c].r = 0
             /\ cells'[c].w > cells[c].w => cells[c].r = 0 /\ cells[c].w = 0
             /\ cells'[c].r > cells[c].r => cells[c].w = 0
       /\ \A h \in handles :
             /\ borrow_mut(h) /\ (cells[h.cell].r > 0 \/ cells[h.cell].w > 0)
                   => last'.res = Panic /\ mode' = "aborted" /\ cells' = cells
             /\ borrow(h) /\ cells[h.cell].w > 0
                   => last'.res = Panic /\ mode' = "aborted" /\ cells' = cells]_vars

\* C6 witness: a borrow_mut has aborted on an instance that two shared
\* borrows hold at once.
C6_Witness ==
    /\ last.op = "borrow_mut" /\ last.res = Panic
    /\ cells[last.tx.cell].r >= 2 /\ cells[last.tx.cell].w = 0

\* C7: delete aborts and leaves every mutation state as it was when a
\* guard of the instance is alive, and sets the state to Removed when none
\* is.
C7_DeleteNeedsNoBorrow ==
    [][\A h \in handles :
          delete(h) =>
              IF cells[h.cell].r > 0 \/ cells[h.cell].w > 0
              THEN last'.res = Panic /\ mode' = "aborted" /\ states' = states
              ELSE /\ states'[h.state] = "Removed" /\ mode' = mode
                   /\ \A s \in 1..Len(states) : s # h.state => states'[s] = states[s]]_vars

\* C7 witness: a delete has aborted on an instance a shared borrow holds,
\* and the entry is still Clean.
C7_Witness ==
    /\ last.op = "delete" /\ last.res = Panic
    /\ cells[last.tx.cell].r > 0
    /\ states[last.tx.state] = "Clean"

\* C8: the mutation state of an entry moves only along Clean -> Modified ->
\* Removed: no step takes a state cell from Modified to Clean or from
\* Removed to anything else, and no step gives a tracked key another state
\* cell.
C8_StateMonotonic ==
    [][/\ \A s \in 1..Len(states) :
             /\ states[s] = "Modified" => states'[s] \in {"Modified", "Removed"}
             /\ states[s] = "Removed" => states'[s] = "Removed"
       /\ \A k \in DOMAIN state_map :
             k \in DOMAIN state_map' /\ state_map'[k] = state_map[k]]_vars

\* C8 witness: an entry went Clean -> Modified -> Removed and a borrow_mut
\* on it has been refused.
C8_Witness ==
    /\ last.op = "borrow_mut" /\ last.res = Panic
    /\ states[last.tx.state] = "Removed"
    /\ cells[last.tx.cell].content = << "b" >>
    /\ cells[last.tx.cell].r = 0

\* tracked entries in a mutation state
InState(st) == {k \in Tracked : StateOf(k) = st}
\* how many of the storage calls are op on the row of entry k
CallsFor(calls, op, k) ==
    Cardinality({i \in 1..Len(calls) : calls[i] = Call(op, k.typ, CellOf(k).id)})
CallsOf(calls, op) == Cardinality({i \in 1..Len(calls) : calls[i].op = op})

\* C4: a commit that meets no storage failure has issued one update_row
\* for each Modified entry, one delete_row for each Removed entry (also
\* one that was modified before it was deleted), nothing for a Clean entry,
\* and nothing else before the storage commit.
C4_FlushCounts ==
    mode = "committed" =>
        /\ \A k \in InState("Modified") :
              CallsFor(last.calls, "update_row", k) = 1
              /\ CallsFor(last.calls, "delete_row", k) = 0
        /\ \A k \in InState("Removed") :
              CallsFor(last.calls, "delete_row", k) = 1
              /\ CallsFor(last.calls, "update_row", k) = 0
        /\ \A k \in InState("Clean") :
              CallsFor(last.calls, "update_row", k) = 0
              /\ CallsFor(last.calls, "delete_row", k) = 0
        /\ CallsOf(last.calls, "update_row") = Cardinality(InState("Modified"))
        /\ CallsOf(last.calls, "delete_row") = Cardinality(InState("Removed"))
        /\ Len(last.calls) =
              Cardinality(InState("Modified")) + Cardinality(InState("Removed")) + 1

\* C4 witness: a commit went through with a Clean entry beside a record
\* that was created, renamed and then deleted.
C4_Witness ==
    /\ mode = "committed"
    /\ InState("Clean") # {}
    /\ \E k \in InState("Removed") :
          k.typ = "Named" /\ CellOf(k).content = << "b" >> /\ k.id = 2

\* the row of entry k in database d says what the instance of k says
RowAgrees(d, k) ==
    /\ HasRow(d, k)
    /\ \A i \in 1..Len(Columns(k.typ)) :
          /\ Columns(k.typ)[i].column_name \in DOMAIN RowIn(d, k)
          /\ RowIn(d, k)[Columns(k.typ)[i].column_name]
                = to_sql(serialize(k.typ, CellOf(k).content)[i])

\* C5: after a successful commit storage agrees with every tracked entry:
\* the row of a Removed entry is gone, the row of a Modified entry is the
\* serialization of its instance, the row of a Clean entry is what was
\* inserted or loaded (which its instance still says).
C5_Original ==
    mode = "committed" =>
        \A k \in Tracked :
            IF StateOf(k) = "Removed" THEN ~HasRow(disk, k) ELSE RowAgrees(disk, k)

\* entry k is the only tracked entry of its table row
Unshared(k) ==
    \A k2 \in Tracked : k2.id = k.id /\ tableOf[k2.typ] = tableOf[k.typ] => k2 = k

\* C5, for the entries whose row no entry of another record type tracks:
\* there storage agrees with the entry after a successful commit.
C5_UnsharedAgree ==
    mode = "committed" =>
        \A k \in Tracked :
            Unshared(k) =>
                IF StateOf(k) = "Removed" THEN ~HasRow(disk, k) ELSE RowAgrees(disk, k)

\* C5 case: a commit went through with a renamed record.
C5_Witness ==
    /\ mode = "committed"
    /\ \E k \in InState("Modified") :
          /\ Unshared(k) /\ k.typ = "Named"
          /\ RowIn(disk, k)["name"].val = "b"

\* the set of non-Clean entries a commit has to flush
Pending == InState("Modified") \cup InState("Removed")

\* C9: in a commit the storage commit comes last, after one successful
\* flush call for every Modified or Removed entry; when a flush call fails
\* the commit returns an error, the calls end with the failed one, no
\* storage commit or rollback is issued and nothing becomes durable.
C9_CommitAfterFlush ==
    [][last = Idle /\ last'.op = "commit" =>
          LET calls == last'.calls
              n == Len(calls)
          IN  /\ ~HasCall(calls, "rollback")
              /\ \A i \in 1..n : calls[i].op = "commit" => i = n
              /\ \A k \in Pending :
                    CallsFor(calls, "update_row", k) + CallsFor(calls, "delete_row", k) <= 1
              /\ HasCall(calls, "commit") =>
                    /\ n = Cardinality(Pending) + 1
                    /\ \A k \in Pending :
                          CallsFor(calls, "update_row", k)
                              + CallsFor(calls, "delete_row", k) = 1
              /\ last'.res = Ok <=> mode' = "committed"
              /\ last'.res = Ok => HasCall(calls, "commit") /\ disk' = db'
              /\ last'.res # Ok =>
                    /\ disk' = disk
                    /\ mode' = "commit_failed"
                    /\ \/ last'.res \in {LockConflict, Storage}
                       \/ /\ n > 0 /\ calls[n].op = "delete_row"
                          /\ last'.res = NotFound(calls[n].id, calls[n].typ)
              /\ ~HasCall(calls, "commit") =>
                    /\ last'.res # Ok
                    /\ n >= 1 /\ n <= Cardinality(Pending)]_vars

\* C9 witness: the first flush call of a commit failed with two entries
\* pending: the other entry was not flushed and no storage commit followed.
C9_Witness ==
    /\ mode = "commit_failed"
    /\ Cardinality(Pending) = 2
    /\ Len(last.calls) = 1
    /\ ~HasCall(last.calls, "commit")
    /\ last.res = LockConflict

\* C10: rollback issues the storage rollback and nothing else, whatever
\* the states of the entries; nothing of the unit of work becomes durable,
\* and once the storage rollback has succeeded the engine holds what was
\* committed before: no pending write, no delete, no inserted row.
C10_RollbackOnly ==
    [][last = Idle /\ last'.op = "rollback" =>
          /\ last'.calls = << Call("rollback", "", 0) >>
          /\ disk' = disk
          /\ last'.res = Ok => db' = disk /\ mode' = "rolled_back"
          /\ last'.res # Ok => db' = db /\ mode' = "rollback_failed"
          /\ cells' = cells /\ states' = states]_vars

\* C10 witness: a rollback succeeded with a Modified and a Removed entry
\* tracked, one of them created in this unit of work: its row is gone.
C10_Witness ==
    /\ mode = "rolled_back" /\ last.res = Ok
    /\ InState("Modified") # {} /\ InState("Removed") # {}
    /\ \E k \in Tracked : ~HasRow(db, k)
    /\ db = disk

\* the step is a call of op that returns to the caller
Returns(op) == last = Idle /\ last'.op = op

\* C11: a create that succeeds has issued insert_row as its last storage
\* call: the row is in the engine's open transaction (and not committed)
\* when create returns, and the entry is registered Clean under the
\* returned id with the supplied record; a commit issues no statement for
\* an entry that is still Clean.
C11_EagerInsert ==
    [][/\ \A T \in Types :
             Returns("create") /\ last'.typ = T /\ last'.res = Ok =>
                 LET k == Key(T, last'.id) IN
                 /\ last'.calls[Len(last'.calls)] = Call("insert_row", T, 0)
                 /\ ~HasRow(db, k) /\ HasRow(db', k)
                 /\ disk' = disk /\ mode' = "open"
                 /\ k \notin DOMAIN state_map
                 /\ k \in DOMAIN state_map' /\ k \in DOMAIN cell_map'
                 /\ states'[state_map'[k]] = "Clean"
                 /\ cells'[cell_map'[k]].id = last'.id
                 /\ RowIn(db', k) = InsertedRow(db'[tableOf[T]], T,
                                       serialize(T, cells'[cell_map'[k]].content))
                 /\ last'.tx = Tx(T, last'.id, cell_map'[k], state_map'[k])
       /\ Returns("commit") =>
             \A k \in InState("Clean") :
                 /\ CallsFor(last'.calls, "update_row", k) = 0
                 /\ CallsFor(last'.calls, "delete_row", k) = 0]_vars

\* C11 witness: a commit of a unit of work that created a record and never
\* touched it went through with the storage commit as its only call, and
\* the row is durable.
C11_Witness ==
    /\ mode = "committed"
    /\ last.calls = << Call("commit", "", 0) >>
    /\ \E k \in InState("Clean") :
          k.typ = "Named" /\ k.id = 2 /\ HasRow(disk, k) /\ ~HasRow(LoadedDb, k)

\* the create or get that returned went on after ensure_table: it reached
\* insert_row, select_row or the identity map
PastTableCheck(res, calls) ==
    \/ HasCall(calls, "insert_row") \/ HasCall(calls, "select_row")
    \/ res = Ok \/ res.kind = "NotFound"

\* C12: every create and get starts with table_exists for the type's table
\* and issues create_table only as the call after it, and exactly when the
\* table is not there; past the table check the table exists; a create on
\* storage without the table makes it and returns row id 1.
C12_CreateTableOnce ==
    [][\A T \in Types :
          (Returns("create") \/ Returns("get")) /\ last'.typ = T =>
              LET calls == last'.calls IN
              /\ calls[1] = Call("table_exists", T, 0)
              /\ \A i \in 1..Len(calls) :
                    /\ calls[i].op = "table_exists" => i = 1
                    /\ calls[i].op = "create_table" =>
                          /\ i = 2 /\ calls[i] = Call("create_table", T, 0)
                          /\ ~db[tableOf[T]].exists
              /\ Len(calls) >= 2 =>
                    (calls[2].op = "create_table" <=> ~db[tableOf[T]].exists)
              /\ db[tableOf[T]].exists => db'[tableOf[T]] = db[tableOf[T]]
                                          \/ HasCall(calls, "insert_row")
              /\ PastTableCheck(last'.res, calls) => db'[tableOf[T]].exists
              /\ last'.op = "create" /\ last'.res = Ok /\ ~db[tableOf[T]].exists =>
                    /\ calls = << Call("table_exists", T, 0),
                                  Call("create_table", T, 0),
                                  Call("insert_row", T, 0) >>
                    /\ last'.id = 1]_vars

\* C12 witness: a create on storage without the table has made the table
\* and returned id 1, beside a table that was there before.
C12_Witness ==
    /\ last.op = "create" /\ last.res = Ok /\ last.id = 1
    /\ HasCall(last.calls, "create_table")
    /\ db[tableOf[last.typ]].exists /\ ~disk[tableOf[last.typ]].exists
    /\ \E tb \in Tables : disk[tb].exists

\* fault plans of any operation of the model
AnyPlan == FaultPlans(MaxEntries + 2)

\* the step is a create, get, commit or rollback under fault plan fp
Under(fp) ==
    \/ \E T \in Types, v \in NewValues :
          create(T, IF Columns(T) = << >> THEN << >> ELSE << v >>, fp)
    \/ \E T \in Types, id \in 1..MaxId : get(T, id, fp)
    \/ \E order \in Perms(DOMAIN cell_map) : commit(order, fp)
    \/ rollback(fp)

\* the failure of plan fp met a statement among the storage calls made
\* (update_row of a type without columns sends no statement)
Struck(fp, calls) ==
    /\ fp.at \in 1..Len(calls)
    /\ ~(calls[fp.at].op = "update_row" /\ Columns(calls[fp.at].typ) = << >>)

\* C13 as stated: a busy or a locked condition of the engine in any
\* storage call reaches the caller as LockConflict, and no other engine
\* failure does.
C13_Original ==
    [][\A fp \in AnyPlan :
          Under(fp) /\ Struck(fp, last'.calls) =>
              (fp.err \in {Busy, Locked} <=> last'.res = LockConflict)]_vars

\* C14 as stated: an insert_row that fails with a "no such column" error
\* returns MissingColumn, for the schema column of that name or for "id"
\* when no schema column has the name.
C14_Original ==
    [][\A T \in Types, v \in NewValues, fp \in AnyPlan :
          LET content == IF Columns(T) = << >> THEN << >> ELSE << v >>
              e == InsertEngineErr(db', T, serialize(T, content),
                                   FaultAt(fp, Len(last'.calls)))
          IN  /\ create(T, content, fp)
              /\ HasCall(last'.calls, "insert_row")
              /\ e.col # ""
              => last'.res = MissingColumn(IF e.col \in ColumnNames(T)
                                           THEN e.col ELSE "id")]_vars

\* the five error kinds
ErrorKinds == {"NotFound", "UnexpectedType", "MissingColumn", "LockConflict", "Storage"}

\* C15 as stated: create, get, commit and rollback end with Ok or an
\* error of one of the five kinds, whatever the engine answered; none of
\* them aborts.
C15_Original ==
    last.op \in {"create", "get", "commit", "rollback"} =>
        last.res.kind \in ErrorKinds \cup {"Ok"}

\* C16: the Row serialize makes of a value has one Value per column of the
\* schema, the i-th Value with the DataType tag of the i-th column, and
\* deserialize makes of that Row a value equal to the one serialized.
C16_RoundTrip ==
    /\ last.op \in {"serialize", "deserialize"} =>
          /\ Len(last.row) = Len(Columns(last.typ))
          /\ \A i \in 1..Len(last.row) : last.row[i].tag = Columns(last.typ)[i].typ
          /\ last.row = serialize(last.typ, cells[1].content)
    /\ last.op = "deserialize" =>
          /\ cells[2].content = deserialize(last.typ, serialize(last.typ, cells[1].content))
          /\ cells[2].content = cells[1].content

\* C16 witness: a Sample of four fields of four Rust types went through
\* serialize and deserialize.
C16_Witness ==
    /\ last.op = "deserialize" /\ last.typ = "Sample"
    /\ Len(last.row) = 4
    /\ cells[2].content = << "xff", "0.5", "", "-1" >>

\* C17: a borrow_mut on an entry that is not Removed leaves it Modified
\* and its instance as it was, written through or not; a borrow changes no
\* mutation state; a commit that goes through has issued an update_row for
\* every Modified entry, also for one whose instance still says what its
\* row says.
C17_BorrowMutMarks ==
    [][/\ \A h \in handles :
             /\ borrow_mut(h) /\ ~Deleted(h) =>
                   /\ states'[h.state] = "Modified"
                   /\ \A s \in 1..Len(states) : s # h.state => states'[s] = states[s]
                   /\ cells'[h.cell].content = cells[h.cell].content
             /\ borrow(h) => states' = states
       /\ Returns("commit") /\ last'.res = Ok =>
             \A k \in InState("Modified") :
                 CallsFor(last'.calls, "update_row", k) = 1]_vars

\* C17 witness: the loaded record (1, "b") was mutably borrowed and still
\* says "b"; the commit went through with an update_row for it.
C17_Witness ==
    /\ mode = "committed"
    /\ \E k \in InState("Modified") :
          /\ k = Key("Named", 1) /\ HasRow(LoadedDb, k) /\ tableOf["Named"] = "t"
          /\ tableOf["Unit"] = "u"
          /\ CellOf(k).content = << "b" >>
          /\ last.calls = << Call("update_row", "Named", 1), Call("commit", "", 0) >>

\* C18 as stated: a borrow_mut that aborts because a guard of the instance
\* is alive leaves every mutation state and every instance as it was.
C18_Original ==
    [][\A h \in handles :
          borrow_mut(h) /\ ~Deleted(h) /\ BorrowMutFails(h.cell) =>
              /\ last'.res = Panic
              /\ states' = states
              /\ cells' = cells]_vars

\* the step registers nothing and leaves every entry, instance, mutation
\* state and handle as it was
Unregistered ==
    /\ cell_map' = cell_map /\ state_map' = state_map
    /\ cells' = cells /\ states' = states /\ handles' = handles

\* the step adds the entry of key k, Clean, and leaves the others alone
Registered(k) ==
    /\ DOMAIN state_map' = DOMAIN state_map \cup {k}
    /\ DOMAIN cell_map' = DOMAIN cell_map \cup {k}
    /\ states'[state_map'[k]] = "Clean"
    /\ \A k2 \in DOMAIN state_map : state_map'[k2] = state_map[k2]
    /\ \A k2 \in DOMAIN cell_map : cell_map'[k2] = cell_map[k2]
    /\ \A c \in 1..Len(cells) : cells'[c] = cells[c]
    /\ \A c \in 1..Len(states) : states'[c] = states[c]

\* C19: a get of an untracked key answers Ok or NotFound only from a
\* select_row it has just issued, and registers the entry, Clean and
\* holding the row it read, only when the select succeeded; a get or a
\* create that returns an error registers nothing and changes no entry, so
\* the key is as untracked as before and the next get of it reads storage
\* again; a create that returns Ok has its row in storage.
C19_FailureRegistersNothing ==
    [][/\ \A T \in Types, id \in 1..MaxId :
             /\ Returns("get") /\ last'.typ = T /\ last'.id = id
             /\ Key(T, id) \notin DOMAIN state_map
             => LET k == Key(T, id)
                    calls == last'.calls
                IN  /\ last'.res = Ok \/ last'.res.kind = "NotFound" =>
                          calls[Len(calls)] = Call("select_row", T, id)
                    /\ last'.res.kind = "NotFound" =>
                          last'.res = NotFound(id, T)
                    /\ IF last'.res = Ok
                       THEN /\ Registered(k)
                            /\ HasRow(db', k)
                            /\ cells'[cell_map'[k]].content =
                                  deserialize(T, select_row(db', id, T, NoFault).val)
                            /\ last'.tx = Tx(T, id, cell_map'[k], state_map'[k])
                       ELSE Unregistered
       /\ Returns("create") =>
             IF last'.res = Ok
             THEN Registered(Key(last'.typ, last'.id))
                  /\ HasRow(db', Key(last'.typ, last'.id))
             ELSE Unregistered]_vars

\* C19 witness: get(2) on a table that holds row 1 only has returned
\* NotFound(2, Named) after a select_row; the entry of row 1, renamed in
\* this unit of work, is tracked as before and key 2 is not tracked.
C19_Witness ==
    /\ last.op = "get" /\ last.res = NotFound(2, "Named")
    /\ last.calls = << Call("table_exists", "Named", 0), Call("select_row", "Named", 2) >>
    /\ Key("Named", 2) \notin Tracked
    /\ Key("Named", 1) \in Tracked
    /\ CellOf(Key("Named", 1)).content = << "a" >>
    /\ HasRow(LoadedDb, Key("Named", 1)) /\ tableOf["Unit"] = "u"

\* C20 as stated: the select_row of a get returns NotFound(id, type name)
\* exactly when the engine finds no row of that id: not for a row that is
\* there, and not for any other failure of the engine.
C20_Original ==
    [][\A T \in Types, id \in 1..MaxId, fp \in AnyPlan :
          get(T, id, fp) /\ HasCall(last'.calls, "select_row") =>
              (last'.res = NotFound(id, T)
                  <=> SelectEngineErr(db', id, T, FaultAt(fp, Len(last'.calls))).class
                          = "QueryReturnedNoRows")]_vars

\* no two record types name one table
OneTypePerTable == \A T1, T2 \in Types : tableOf[T1] = tableOf[T2] => T1 = T2

\* C21: while the unit of work is open every tracked entry, Removed or
\* not, has its row in the engine's transaction; the id a create returns
\* is not the key of an entry tracked before it; with one record type per
\* table no delete_row of a commit finds its row missing.
C21_RowsStayUntilCommit ==
    [][/\ mode = "open" => \A k \in Tracked : HasRow(db, k)
       /\ mode' = "open" => \A k \in DOMAIN cell_map' : HasRow(db', k)
       /\ Returns("create") /\ last'.res = Ok =>
             /\ Key(last'.typ, last'.id) \notin DOMAIN cell_map
             /\ Key(last'.typ, last'.id) \notin DOMAIN state_map
             /\ Registered(Key(last'.typ, last'.id))
       /\ Returns("commit") /\ OneTypePerTable =>
             /\ last'.res.kind # "NotFound"
             /\ \A i \in 1..Len(last'.calls) :
                   last'.calls[i].op = "delete_row" =>
                       HasRow(db, Key(last'.calls[i].typ, last'.calls[i].id))]_vars

\* C21 witness: the record of row 1 was deleted through its handle, its
\* row is still in the engine's transaction, and a create after the delete
\* has returned id 2.
C21_Witness ==
    /\ mode = "open" /\ last.op = "create" /\ last.res = Ok /\ last.id = 2
    /\ Key(last.typ, 1) \in InState("Removed")
    /\ HasRow(db, Key(last.typ, 1))
    /\ Len(states) = 2

\* the non-Clean entries are Modified entries of types without columns
OnlyColumnless ==
    /\ InState("Removed") = {}
    /\ InState("Modified") # {}
    /\ \A k \in InState("Modified") : Columns(k.typ) = << >>

\* C22: a create of a type without columns returns the id the engine
\* assigns to the row it inserts, a row without a bound value; a failure
\* of the engine aimed at the update_row of an entry of such a type meets
\* no statement, so the flush goes on to the next call; a commit whose
\* pending entries are all Modified entries of such types makes durable
\* what the engine held before it.
C22_ColumnlessFlush ==
    [][/\ \A T \in Types :
             Returns("create") /\ last'.typ = T /\ last'.res = Ok /\ Columns(T) = << >> =>
                 /\ last'.id = last_insert_rowid(db[tableOf[T]])
                 /\ last'.id \notin DOMAIN db[tableOf[T]].rows
                 /\ \A c \in db'[tableOf[T]].cols :
                       db'[tableOf[T]].rows[last'.id][c] = SqlNull
       /\ Returns("commit") =>
             \A fp \in AnyPlan :
                 /\ fp.at \in 1..Len(last'.calls)
                 /\ last'.calls[fp.at].op = "update_row"
                 /\ Columns(last'.calls[fp.at].typ) = << >>
                 /\ \E order \in Perms(DOMAIN cell_map) : commit(order, fp)
                 => Len(last'.calls) > fp.at
       /\ Returns("commit") /\ OnlyColumnless =>
             /\ db' = db
             /\ last'.res = Ok => disk' = db
             /\ last'.res # Ok => HasCall(last'.calls, "commit")]_vars

\* C22 witness: a commit with one pending entry, a Modified record of the
\* type without columns, went through: update_row, then the storage
\* commit, and storage holds what it held.
C22_Witness ==
    /\ mode = "committed"
    /\ InState("Modified") = {Key("Unit", 1)} /\ InState("Removed") = {}
    /\ last.calls = << Call("update_row", "Unit", 1), Call("commit", "", 0) >>
    /\ HasRow(disk, Key("Unit", 1))

\* C23: the instance map and the mutation-state map have the same keys,
\* and no commit aborts for want of the state of an entry it visits.
C23_SameKeys ==
    /\ DOMAIN cell_map = DOMAIN state_map
    /\ last.op = "commit" => last.res # Panic

\* C23 witness: a commit has flushed two entries, one Modified and one
\* Removed, and found the state of each.
C23_Witness ==
    /\ last.op = "commit" /\ last.res = Ok
    /\ Cardinality(DOMAIN cell_map) = 2
    /\ Cardinality(InState("Modified")) = 1 /\ Cardinality(InState("Removed")) = 1
    /\ Len(last.calls) = 3

====
